---- MODULE Spec2Model ----
(***************************************************************************)
(* A model of the serializable memory arena: the Allocator (header, free   *)
(* list, coalescing, growth, structure registry, fromBuffer) and the       *)
(* ResizableArray that lives inside allocator blocks.                      *)
(*                                                                         *)
(* The arena is modelled byte by byte.  An ArrayBuffer is zero-filled, so  *)
(* the buffer is kept as its byteLength and the function from the          *)
(* addresses of its non-zero bytes to their values.  DataView accessors    *)
(* are big-endian and throw a RangeError outside the buffer.  Every        *)
(* operation is a pure operator from a world (allocator plus the arrays    *)
(* it can call back into) to a result [w, err, ret]; a thrown exception    *)
(* keeps the mutations made before the throw.  Numbers are the naturals    *)
(* below 2^31: a call that reads or computes a larger one ends in the      *)
(* result "beyond" and is not followed.                                    *)
(***************************************************************************)
EXTENDS Integers, Sequences, FiniteSets, TLC

(* ------------------------------ bounds --------------------------------- *)
\* largest maxFreeBlocks an arena is constructed with
MaxFreeBlocksBound == 2
\* calls made on one arena in a run
MaxSteps == 5
\* calls made on an arena used through allocate and free alone
MaxAllocSteps == 7
\* blocks a caller holds at once
MaxLive == 3
\* ResizableArray instances constructed on one arena
MaxArrays == 2
\* calls made on an arena that serves requests larger than itself
MaxGrowSteps == 6
\* calls made on an arena used through ResizableArrays and registrations
MaxRegisterSteps == 5
\* calls made on an arena used through ResizableArrays alone
MaxArraySteps == 5
\* largest index passed to get
MaxIndex == 2

(* ------------------------- program constants --------------------------- *)
\* maxFreeBlocks = 100, the constructor's default
DefaultMaxFreeBlocks == 100
\* _initialCapacity = 10, the ResizableArray constructor's default
DefaultInitialCapacity == 10

\* new Allocator(1024), the arena the ResizableArray tests construct
TestBufferSize == 1024

\* _initialBufferSize values small arenas are constructed with
InitialBufferSizes == {64}
\* the (_initialBufferSize, maxFreeBlocks) pairs arenas are constructed with:
\* small arenas with a small free table, and the arena of the tests
Arenas ==
  {<<size, mfb>> : size \in InitialBufferSizes, mfb \in 1 .. MaxFreeBlocksBound}
    \cup {<<TestBufferSize, DefaultMaxFreeBlocks>>}
\* sizes passed to allocate by a caller of an arena that holds structures
AllocSizes == {4, 8, 40}
\* sizes passed to allocate on an arena used through allocate and free alone
PlainAllocSizes == {3, 4, 7, 40}
\* sizes passed to allocate, one of them larger than a doubled small arena
GrowSizes == {8, 40, 200}
\* capacities ResizableArrays are constructed with
Capacities == {1, 2}
\* values pushed
Values == {5, 6}

VARIABLES
  buffer,         \* Allocator._buffer: [byteLength, bytes]
  maxFreeBlocks,  \* Allocator.maxFreeBlocks
  structures,     \* Allocator._structures: id -> [offset, struct]
  nextId,         \* Allocator._nextId
  arrays,         \* the ResizableArray objects: [length, capacity, block, ID,
                  \* initialCapacity, held (the caller has the object)]
  live,           \* blocks returned by allocate to the caller and not yet freed
  pushed,         \* per array, the values its completed push calls were given
  hist,           \* the latest call and the run of frees just before it
  steps           \* calls made so far

vars == <<buffer, maxFreeBlocks, structures, nextId, arrays, live, pushed, hist, steps>>

(* ------------------------------ results -------------------------------- *)
Ok(w) == [w |-> w, err |-> "none", ret |-> 0]
Return(w, v) == [w |-> w, err |-> "none", ret |-> v]
Throw(w, e) == [w |-> w, err |-> e, ret |-> 0]

MemoryBlockRef(offset, size) == [offset |-> offset, size |-> size]

(* ------------------------- ArrayBuffer / DataView ----------------------- *)
\* new ArrayBuffer(n): n zero bytes
ArrayBuffer(n) == [byteLength |-> n, bytes |-> [x \in {} |-> 0]]

GetUint8(w, a) == IF a \in DOMAIN w.buffer.bytes THEN w.buffer.bytes[a] ELSE 0

\* the bounds check of DataView.getUint32 / setUint32
InBounds(w, a) == a >= 0 /\ a <= w.buffer.byteLength - 4

GetUint32(w, a) ==
  GetUint8(w, a) * 16777216 + GetUint8(w, a + 1) * 65536
    + GetUint8(w, a + 2) * 256 + GetUint8(w, a + 3)

\* the four big-endian bytes of v modulo 2^32
Uint32Bytes(a, v) ==
  [x \in a .. a + 3 |->
     CASE x = a     -> (v \div 16777216) % 256
       [] x = a + 1 -> (v \div 65536) % 256
       [] x = a + 2 -> (v \div 256) % 256
       [] OTHER     -> v % 256]

\* store the bytes upd (address -> value) and keep only the non-zero ones
StoreBytes(w, upd) ==
  LET old == w.buffer.bytes
      val(x) == IF x \in DOMAIN upd THEN upd[x] ELSE old[x]
      dom == {x \in DOMAIN old \cup DOMAIN upd : val(x) # 0}
  IN [w EXCEPT !.buffer.bytes = [x \in dom |-> val(x)]]

SetUint32(w, a, v) == StoreBytes(w, Uint32Bytes(a, v))

\* The numbers of the model are the naturals below 2^31.  A 32-bit word whose
\* first byte has its high bit set is beyond them,
Wide(w, a) == GetUint8(w, a) >= 128

\* and so is a sum that is not below 2^31.
SumFits(a, b) == a <= 2147483647 - b

\* a call that computes a number beyond the model's: the model does not
\* follow it
Beyond(w) == [w |-> w, err |-> "beyond", ret |-> 0]

\* view.setUint32(a, v) after the calls of r, unless one of them threw
Set32(r, a, v) ==
  IF r.err # "none" THEN r
  ELSE IF ~InBounds(r.w, a) THEN Throw(r.w, "RangeError")
  ELSE [r EXCEPT !.w = SetUint32(r.w, a, v)]

\* return v after the calls of r, unless one of them threw
ReturnValue(r, v) == IF r.err # "none" THEN r ELSE Return(r.w, v)

(* ----------------------------- Allocator ------------------------------- *)
InitialOffset(mfb) == 12 + mfb * 8

\* new Allocator(initialBufferSize, mfb); arrs are the ResizableArray objects
\* that exist beside it
AllocatorNew(initialBufferSize, mfb, arrs) ==
  Set32(Set32(Set32(Ok([buffer |-> ArrayBuffer(initialBufferSize),
                        maxFreeBlocks |-> mfb, structures |-> [x \in {} |-> 0],
                        nextId |-> 0, arrays |-> arrs]),
                    0, InitialOffset(mfb)), 4, 0), 8, 0)

BumpOffset(w) == GetUint32(w, 0)
FreeBlockCount(w) == GetUint32(w, 4)
StructuresCount(w) == GetUint32(w, 8)

FreeEntry(w, i) ==
  [offset |-> GetUint32(w, 12 + i * 8), size |-> GetUint32(w, 12 + i * 8 + 4)]

\* the first-fit search of allocate: the first index from i whose entry is
\* large enough, "none" past the count, a RangeError on a read past the buffer
RECURSIVE FindFreeBlock(_, _, _, _)
FindFreeBlock(w, size, i, freeBlockCount) ==
  IF i >= freeBlockCount THEN [kind |-> "none", i |-> i]
  ELSE IF ~InBounds(w, 12 + i * 8) \/ ~InBounds(w, 12 + i * 8 + 4)
       THEN [kind |-> "RangeError", i |-> i]
  ELSE IF Wide(w, 12 + i * 8) \/ Wide(w, 12 + i * 8 + 4)
       THEN [kind |-> "beyond", i |-> i]
  ELSE IF FreeEntry(w, i).size >= size THEN [kind |-> "found", i |-> i]
  ELSE FindFreeBlock(w, size, i + 1, freeBlockCount)

\* a shrink that leaves the entry's offset where it was
SplitFreeBlockKeepOffset(w, offset, blockOffset, size, remainingSize) ==
  Set32(Set32(Ok(w), offset, blockOffset), offset + 4, remainingSize)

\* the in-place shrink of a free entry that is larger than the request
SplitFreeBlock(w, offset, blockOffset, size, remainingSize) ==
  Set32(Set32(Ok(w), offset, blockOffset + size), offset + 4, remainingSize)

\* removeFreeBlock's copy of the last entry's size into the freed slot
MoveLastSize(r, offset, lastOffset) ==
  IF ~InBounds(r.w, lastOffset + 4) THEN Throw(r.w, "RangeError")
  ELSE IF Wide(r.w, lastOffset + 4) THEN Beyond(r.w)
  ELSE Set32(r, offset + 4, GetUint32(r.w, lastOffset + 4))

\* removeFreeBlock's copy of the last entry, entry freeBlockCount, into the
\* slot index
MoveLast(r, index, freeBlockCount) ==
  IF freeBlockCount > r.w.buffer.byteLength \/ ~InBounds(r.w, 12 + freeBlockCount * 8)
  THEN Throw(r.w, "RangeError")
  ELSE IF Wide(r.w, 12 + freeBlockCount * 8) THEN Beyond(r.w)
  ELSE MoveLastSize(Set32(r, 12 + index * 8, GetUint32(r.w, 12 + freeBlockCount * 8)),
                    12 + index * 8, 12 + freeBlockCount * 8)

\* a removal that drops the last entry whatever the index
DropLastFreeBlock(w, index) == Set32(Ok(w), 4, GetUint32(w, 4) - 1)

RemoveFreeBlock(w, index) ==
  LET freeBlockCount == GetUint32(w, 4) - 1 IN
  IF index < freeBlockCount
  THEN MoveLast(Set32(Ok(w), 4, freeBlockCount), index, freeBlockCount)
  ELSE Set32(Ok(w), 4, freeBlockCount)

\* an insertion that appends: the entries stay in table order
InsertLast(s, e) == Append(s, e)

\* freeBlocks.sort((a, b) => a.offset - b.offset): a stable sort
InsertByOffset(s, e) ==
  LET n == Cardinality({i \in 1 .. Len(s) : s[i].offset <= e.offset})
  IN SubSeq(s, 1, n) \o <<e>> \o SubSeq(s, n + 1, Len(s))

RECURSIVE SortByOffset(_)
SortByOffset(s) ==
  IF s = <<>> THEN <<>>
  ELSE InsertByOffset(SortByOffset(SubSeq(s, 1, Len(s) - 1)), s[Len(s)])

\* a test that also keeps byte-adjacent blocks apart
EndsBeforeOrAt(lastBlock, nextBlock) ==
  lastBlock.offset + lastBlock.size <= nextBlock.offset

\* the test of the merge loop: the last merged block ends before the next starts
EndsBefore(lastBlock, nextBlock) ==
  lastBlock.offset + lastBlock.size < nextBlock.offset

\* the merge loop of coalesceFreeBlocks over the sorted entries from i; fits
\* tells whether every sum it formed is a number of the model
RECURSIVE MergeBlocks(_, _, _)
MergeBlocks(freeBlocks, i, mergedBlocks) ==
  IF i > Len(freeBlocks) THEN [fits |-> TRUE, blocks |-> mergedBlocks]
  ELSE IF Len(mergedBlocks) = 0
       THEN MergeBlocks(freeBlocks, i + 1, Append(mergedBlocks, freeBlocks[i]))
  ELSE IF ~SumFits(mergedBlocks[Len(mergedBlocks)].offset,
                   mergedBlocks[Len(mergedBlocks)].size)
       THEN [fits |-> FALSE, blocks |-> mergedBlocks]
  ELSE IF EndsBefore(mergedBlocks[Len(mergedBlocks)], freeBlocks[i])
       THEN MergeBlocks(freeBlocks, i + 1, Append(mergedBlocks, freeBlocks[i]))
  ELSE IF ~SumFits(mergedBlocks[Len(mergedBlocks)].size, freeBlocks[i].size)
       THEN [fits |-> FALSE, blocks |-> mergedBlocks]
  ELSE MergeBlocks(freeBlocks, i + 1,
         [mergedBlocks EXCEPT ![Len(mergedBlocks)].size = @ + freeBlocks[i].size])

\* the write-back loop of coalesceFreeBlocks from entry i (1-based)
RECURSIVE SaveBlocks(_, _, _)
SaveBlocks(r, mergedBlocks, i) ==
  IF i > Len(mergedBlocks) THEN r
  ELSE SaveBlocks(Set32(Set32(r, 12 + (i - 1) * 8, mergedBlocks[i].offset),
                        12 + (i - 1) * 8 + 4, mergedBlocks[i].size),
                  mergedBlocks, i + 1)

\* the write-back of coalesceFreeBlocks and its update of the count
SaveMerged(w, merged) ==
  IF ~merged.fits THEN Beyond(w)
  ELSE Set32(SaveBlocks(Ok(w), merged.blocks, 1), 4, Len(merged.blocks))

CoalesceFreeBlocks(w) ==
  IF Wide(w, 4) THEN Beyond(w)
  ELSE IF \/ GetUint32(w, 4) > w.buffer.byteLength
          \/ 12 + GetUint32(w, 4) * 8 > w.buffer.byteLength
       THEN Throw(w, "RangeError")
  ELSE IF \E i \in 0 .. GetUint32(w, 4) - 1 : Wide(w, 12 + i * 8) \/ Wide(w, 12 + i * 8 + 4)
       THEN Beyond(w)
  ELSE SaveMerged(w, MergeBlocks(
         SortByOffset([i \in 1 .. GetUint32(w, 4) |-> FreeEntry(w, i - 1)]), 1, <<>>))

\* a capacity test that is off by one
FreeListOverfull(w, freeBlockCount) == freeBlockCount > w.maxFreeBlocks

\* the capacity test of free
FreeListFull(w, freeBlockCount) == freeBlockCount >= w.maxFreeBlocks

\* free's call of coalesceFreeBlocks after the append
Coalesce(r) == IF r.err # "none" THEN r ELSE CoalesceFreeBlocks(r.w)

Free(w, block) ==
  LET freeBlockCount == GetUint32(w, 4)
      offset == 12 + freeBlockCount * 8
  IN IF Wide(w, 4) THEN Beyond(w)
     ELSE IF FreeListFull(w, freeBlockCount) THEN Throw(w, "full")
     ELSE Coalesce(Set32(Set32(Set32(Ok(w), offset, block.offset),
                               offset + 4, block.size), 4, freeBlockCount + 1))

\* loadMetadata's read of the capacity of array k
LoadCapacity(w, k) ==
  IF ~InBounds(w, w.arrays[k].block.offset + 4) THEN Throw(w, "RangeError")
  ELSE IF Wide(w, w.arrays[k].block.offset + 4) THEN Beyond(w)
  ELSE Ok([w EXCEPT !.arrays[k].capacity = GetUint32(w, w.arrays[k].block.offset + 4)])

\* loadMetadata of array k: the length, then the capacity
LoadMetadata(w, k) ==
  IF ~InBounds(w, w.arrays[k].block.offset) THEN Throw(w, "RangeError")
  ELSE IF Wide(w, w.arrays[k].block.offset) THEN Beyond(w)
  ELSE LoadCapacity(
         [w EXCEPT !.arrays[k].length = GetUint32(w, w.arrays[k].block.offset)], k)

\* 8 + capacity * 4, the size of the block of an array, is a number of the model
BlockSizeFits(capacity) == capacity <= (2147483647 - 8) \div 4

\* struct.restore(offset): a plain registered object (struct 0) does nothing,
\* ResizableArray struct adopts the block and loads its metadata
StructRestore(w, struct, offset) ==
  IF struct = 0 THEN Ok(w)
  ELSE IF ~BlockSizeFits(w.arrays[struct].capacity) THEN Beyond(w)
  ELSE LoadMetadata([w EXCEPT !.arrays[struct].block =
                       MemoryBlockRef(offset, w.arrays[struct].capacity * 4 + 8)],
                    struct)

\* the loop of restoreStructures from registry entry i
RECURSIVE RestoreFrom(_, _, _)
RestoreFrom(r, i, structuresCount) ==
  IF r.err # "none" \/ i >= structuresCount THEN r
  ELSE LET structOffset == 12 + r.w.maxFreeBlocks * 8 + i * 8
       IN IF ~InBounds(r.w, structOffset) \/ ~InBounds(r.w, structOffset + 4)
          THEN Throw(r.w, "RangeError")
          ELSE IF Wide(r.w, structOffset) \/ Wide(r.w, structOffset + 4)
          THEN Beyond(r.w)
          ELSE IF GetUint32(r.w, structOffset) \notin DOMAIN r.w.structures
               THEN Throw(r.w, "TypeError")
               ELSE RestoreFrom(
                      StructRestore(r.w,
                        r.w.structures[GetUint32(r.w, structOffset)].struct,
                        GetUint32(r.w, structOffset + 4)),
                      i + 1, structuresCount)

RestoreStructures(w) ==
  IF Wide(w, 8) THEN Beyond(w) ELSE RestoreFrom(Ok(w), 0, GetUint32(w, 8))

\* a growth to four times the length
ExpandBufferFourfold(w) ==
  RestoreStructures([w EXCEPT !.buffer.byteLength = w.buffer.byteLength * 4])

ExpandBuffer(w) ==
  RestoreStructures([w EXCEPT !.buffer.byteLength = w.buffer.byteLength * 2])

\* allocate's use of free entry i, which is large enough
TakeFreeBlock(w, i, size) ==
  LET offset == 12 + i * 8
      blockOffset == GetUint32(w, offset)
      remainingSize == GetUint32(w, offset + 4) - size
  IN ReturnValue(IF remainingSize > 0
                 THEN IF SumFits(blockOffset, size)
                      THEN SplitFreeBlock(w, offset, blockOffset, size, remainingSize)
                      ELSE Beyond(w)
                 ELSE RemoveFreeBlock(w, i),
                 MemoryBlockRef(blockOffset, size))

\* an advance of the bump offset that skips one byte behind the block
BumpAllocatePadded(r, size) ==
  IF r.err # "none" THEN r
  ELSE IF Wide(r.w, 0) THEN Beyond(r.w)
  ELSE IF ~SumFits(GetUint32(r.w, 0), size + 1) THEN Beyond(r.w)
  ELSE Return(SetUint32(r.w, 0, GetUint32(r.w, 0) + size + 1),
              MemoryBlockRef(GetUint32(r.w, 0), size))

\* allocate's advance of the bump offset, after the growth if there was one
BumpAllocate(r, size) ==
  IF r.err # "none" THEN r
  ELSE IF Wide(r.w, 0) THEN Beyond(r.w)
  ELSE IF ~SumFits(GetUint32(r.w, 0), size) THEN Beyond(r.w)
  ELSE Return(SetUint32(r.w, 0, GetUint32(r.w, 0) + size),
              MemoryBlockRef(GetUint32(r.w, 0), size))

\* allocate, once the search of the free table has ended in f
AllocateFrom(w, f, size) ==
  CASE f.kind = "RangeError" -> Throw(w, "RangeError")
    [] f.kind = "beyond" -> Beyond(w)
    [] f.kind = "found" -> TakeFreeBlock(w, f.i, size)
    [] OTHER -> IF Wide(w, 0) THEN Beyond(w)
                ELSE BumpAllocate(IF GetUint32(w, 0) > w.buffer.byteLength - size
                                  THEN ExpandBuffer(w) ELSE Ok(w), size)

Allocate(w, size) ==
  IF Wide(w, 4) THEN Beyond(w)
  ELSE AllocateFrom(w, FindFreeBlock(w, size, 0, GetUint32(w, 4)), size)

\* registerStructure's append to the registry table of w, whose map holds id
WriteRegistry(w, id, offset) ==
  LET structuresCount == GetUint32(w, 8)
      structOffset == 12 + w.maxFreeBlocks * 8 + structuresCount * 8
  IN IF Wide(w, 8) THEN Beyond(w)
     ELSE IF structuresCount > w.buffer.byteLength THEN Throw(w, "RangeError")
     ELSE ReturnValue(Set32(Set32(Set32(Ok(w), structOffset, id),
                                  structOffset + 4, offset),
                            8, structuresCount + 1), id)

RegisterStructure(w, struct) ==
  IF Wide(w, 0) THEN Beyond(w)
  ELSE WriteRegistry([w EXCEPT !.nextId = w.nextId + 1,
                               !.structures = [x \in DOMAIN w.structures \cup {w.nextId} |->
                                  IF x = w.nextId
                                  THEN [offset |-> GetUint32(w, 0), struct |-> struct]
                                  ELSE w.structures[x]]],
                     w.nextId, GetUint32(w, 0))

\* a getStructureOffset that answers 0 for an id it does not know
GetStructureOffsetOrZero(w, id) ==
  IF id \notin DOMAIN w.structures THEN Return(w, 0)
  ELSE Return(w, w.structures[id].offset)

GetStructureOffset(w, id) ==
  IF id \notin DOMAIN w.structures THEN Throw(w, "notfound")
  ELSE Return(w, w.structures[id].offset)

\* fromBuffer's replacement of the new allocator's buffer and its restore pass
WrapBuffer(r, buf) ==
  IF r.err # "none" THEN r ELSE RestoreStructures([r.w EXCEPT !.buffer = buf])

\* Allocator.fromBuffer(buffer): arrs are the ResizableArray objects that exist
FromBuffer(buf, arrs) ==
  WrapBuffer(AllocatorNew(buf.byteLength, DefaultMaxFreeBlocks, arrs), buf)

(* --------------------------- ResizableArray ---------------------------- *)
SaveMetadata(r, k) ==
  IF r.err # "none" THEN r
  ELSE IF ~InBounds(r.w, r.w.arrays[k].block.offset) THEN Throw(r.w, "RangeError")
  ELSE Set32(Set32(r, r.w.arrays[k].block.offset, r.w.arrays[k].length),
             r.w.arrays[k].block.offset + 4, r.w.arrays[k].capacity)

\* the constructor has returned: the caller has the object k
Hold(r, k) ==
  IF r.err # "none" THEN r ELSE Return([r.w EXCEPT !.arrays[k].held = TRUE], k)

\* the constructor's assignment of __ID and its saveMetadata
SetId(r, k) ==
  IF r.err # "none" THEN r
  ELSE Hold(SaveMetadata(Ok([r.w EXCEPT !.arrays[k].ID = r.ret]), k), k)

\* the constructor after its allocate: the object takes the block and registers
Construct(r, initialCapacity) ==
  IF r.err # "none" THEN r
  ELSE SetId(RegisterStructure(
               [r.w EXCEPT !.arrays = Append(@,
                  [length |-> 0, capacity |-> initialCapacity, block |-> r.ret,
                   ID |-> -1, initialCapacity |-> initialCapacity, held |-> FALSE])],
               Len(r.w.arrays) + 1),
             Len(r.w.arrays) + 1)

\* new ResizableArray(allocator, initialCapacity); ret is the index of the new
\* object.  An object whose constructor threw is held by nobody, but stays
\* registered when the throw came after registerStructure.
ArrayNew(w, initialCapacity) ==
  Construct(Allocate(w, 8 + initialCapacity * 4), initialCapacity)

\* the bounds check of a 32-bit access to element index of the payload that
\* starts at base + 8
ElementInBounds(w, base, index) ==
  /\ index <= w.buffer.byteLength
  /\ base <= w.buffer.byteLength
  /\ InBounds(w, base + 8 + index * 4)

\* new Uint8Array(buffer, block.offset + 8, capacity * 4) does not throw
ViewFits(w, block, capacity) ==
  /\ block.offset <= w.buffer.byteLength - 8
  /\ capacity <= w.buffer.byteLength
  /\ block.offset + 8 + capacity * 4 <= w.buffer.byteLength

\* newView.set(oldView): n bytes from src to dst, as if through a copy
CopyBytes(w, src, dst, n) ==
  LET old == w.buffer.bytes
      moved == {dst + (x - src) : x \in {y \in DOMAIN old : y >= src /\ y < src + n}}
      kept == {x \in DOMAIN old : x < dst \/ x >= dst + n}
  IN [w EXCEPT !.buffer.bytes =
        [x \in kept \cup moved |-> IF x \in moved THEN old[src + (x - dst)] ELSE old[x]]]

\* resize after its free: the array adopts the capacity and the block
Adopt(r, k, newCapacity, newBlock) ==
  IF r.err # "none" THEN r
  ELSE SaveMetadata(Ok([r.w EXCEPT !.arrays[k].capacity = newCapacity,
                                   !.arrays[k].block = newBlock]), k)

\* resize after its allocate: the two views, the copy, the free of the old block
MoveTo(r, k, newCapacity) ==
  IF r.err # "none" THEN r
  ELSE IF \/ ~ViewFits(r.w, r.w.arrays[k].block, r.w.arrays[k].capacity)
          \/ ~ViewFits(r.w, r.ret, newCapacity)
          \/ r.w.arrays[k].capacity * 4 > newCapacity * 4
       THEN Throw(r.w, "RangeError")
       ELSE Adopt(Free(CopyBytes(r.w, r.w.arrays[k].block.offset + 8, r.ret.offset + 8,
                                 r.w.arrays[k].capacity * 4),
                       r.w.arrays[k].block),
                  k, newCapacity, r.ret)

Resize(w, k) ==
  IF ~BlockSizeFits(w.arrays[k].capacity) \/ ~BlockSizeFits(w.arrays[k].capacity * 2)
  THEN Beyond(w)
  ELSE MoveTo(Allocate(w, 8 + w.arrays[k].capacity * 2 * 4), k,
              w.arrays[k].capacity * 2)

\* push after the resize, if there was one: the write, the increment, saveMetadata
Store(r, k, value) ==
  IF r.err # "none" THEN r
  ELSE IF ~ElementInBounds(r.w, r.w.arrays[k].block.offset, r.w.arrays[k].length)
       THEN Throw(r.w, "RangeError")
       ELSE SaveMetadata(
              Ok([SetUint32(r.w, r.w.arrays[k].block.offset + 8 + r.w.arrays[k].length * 4,
                            value)
                  EXCEPT !.arrays[k].length = @ + 1]), k)

Push(w, k, value) ==
  Store(IF w.arrays[k].length >= w.arrays[k].capacity THEN Resize(w, k) ELSE Ok(w),
        k, value)

\* a bounds test that is off by one
BeyondLength(a, index) == index > a.length

\* the bounds test of get
OutOfBounds(a, index) == index >= a.length

Get(w, k, index) ==
  IF OutOfBounds(w.arrays[k], index) THEN Throw(w, "oob")
  ELSE IF ~ElementInBounds(w, w.arrays[k].block.offset, index)
       THEN Throw(w, "RangeError")
  ELSE IF Wide(w, w.arrays[k].block.offset + 8 + index * 4) THEN Beyond(w)
  ELSE Return(w, GetUint32(w, w.arrays[k].block.offset + 8 + index * 4))

\* array.restore(offset), a call by the array's holder
Restore(w, k, offset) == StructRestore(w, k, offset)

\* array.restore(allocator.getStructureOffset(id))
RestoreById(w, k, id) ==
  IF id \notin DOMAIN w.structures THEN GetStructureOffset(w, id)
  ELSE Restore(w, k, GetStructureOffset(w, id).ret)

\* array k2 of w2 has the length, the capacity and the elements of array k1
\* of w1, and get returns each of them
SameArray(w1, k1, w2, k2) ==
  /\ w2.arrays[k2].length = w1.arrays[k1].length
  /\ w2.arrays[k2].capacity = w1.arrays[k1].capacity
  /\ \A i \in 0 .. w1.arrays[k1].length - 1 :
       /\ Get(w1, k1, i).err = "none"
       /\ Get(w2, k2, i).err = "none"
       /\ Get(w2, k2, i).ret = Get(w1, k1, i).ret

\* the reload's restore of the new array c.ret with the id of array k of w,
\* and whether it then has the length, capacity and elements of that array
ReloadRestore(c, w, k) ==
  IF c.err # "none" THEN c
  ELSE ReturnValue(RestoreById(c.w, c.ret, w.arrays[k].ID),
                   LET r == RestoreById(c.w, c.ret, w.arrays[k].ID)
                   IN r.err = "none" /\ SameArray(w, k, r.w, c.ret))

\* the reload's new ResizableArray(loaded) on the loaded allocator
ReloadConstruct(l, w, k) ==
  IF l.err # "none" THEN l
  ELSE ReloadRestore(ArrayNew(l.w, DefaultInitialCapacity), w, k)

\* the reload of the tests: Allocator.fromBuffer on a copy of the bytes, a new
\* ResizableArray on the loaded allocator, and its restore with
\* loaded.getStructureOffset(id).  ret tells whether the restored array has
\* the length, capacity and elements of array k.
Reload(w, k) == ReloadConstruct(FromBuffer(w.buffer, <<>>), w, k)

(* ------------------------------ the calls ------------------------------ *)
World == [buffer |-> buffer, maxFreeBlocks |-> maxFreeBlocks,
          structures |-> structures, nextId |-> nextId, arrays |-> arrays]

\* the state a call leaves behind, whether it returned or threw
Commit(w) ==
  /\ buffer' = w.buffer
  /\ maxFreeBlocks' = w.maxFreeBlocks
  /\ structures' = w.structures
  /\ nextId' = w.nextId
  /\ arrays' = w.arrays

NoBlock == MemoryBlockRef(0, 0)

\* the live entries of the free table, in table order
FreeList(w) ==
  IF GetUint32(w, 4) <= w.maxFreeBlocks /\ 12 + GetUint32(w, 4) * 8 <= w.buffer.byteLength
  THEN [i \in 1 .. GetUint32(w, 4) |-> FreeEntry(w, i - 1)]
  ELSE <<>>

Call(op, k, n, block, err, val, freeBefore) ==
  [op |-> op, k |-> k, n |-> n, block |-> block, err |-> err, val |-> val,
   freeBefore |-> freeBefore]

NoCall == Call("none", 0, 0, NoBlock, "none", 0, <<>>)

\* the latest call, and behind it the successful free calls that came just
\* before it, at most two
Record(c) ==
  /\ hist' = IF hist[1].op = "free" /\ hist[1].err = "none"
             THEN <<c, hist[1], hist[2]>>
             ELSE <<c, NoCall, NoCall>>
  /\ steps' = steps + 1

\* the caller's blocks, kept ordered by offset then size
InsertLive(s, b) ==
  LET n == Cardinality({i \in 1 .. Len(s) :
                 s[i].offset < b.offset \/ (s[i].offset = b.offset /\ s[i].size <= b.size)})
  IN SubSeq(s, 1, n) \o <<b>> \o SubSeq(s, n + 1, Len(s))

RemoveLive(s, i) == SubSeq(s, 1, i - 1) \o SubSeq(s, i + 1, Len(s))

\* the pushed values follow the arrays: a new object starts empty
GrowPushed(w) == pushed \o [i \in 1 .. Len(w.arrays) - Len(pushed) |-> <<>>]

Held == {k \in 1 .. Len(arrays) : arrays[k].held}

\* the header words and the free table of w are numbers of the model
Readable(w) ==
  /\ ~Wide(w, 0) /\ ~Wide(w, 4) /\ ~Wide(w, 8)
  /\ GetUint32(w, 4) <= w.maxFreeBlocks /\ 12 + GetUint32(w, 4) * 8 <= w.buffer.byteLength
       => \A i \in 0 .. GetUint32(w, 4) - 1 : ~Wide(w, 12 + i * 8) /\ ~Wide(w, 12 + i * 8 + 4)

\* the model follows the call that ended in r
Within(r) == r.err # "beyond" /\ Readable(r.w)

\* allocate has ended in r: the caller keeps the block it returned
Allocated(r, size) ==
  /\ Within(r)
  /\ Commit(r.w)
  /\ live' = IF r.err = "none" THEN InsertLive(live, r.ret) ELSE live
  /\ Record(Call("allocate", 0, size, IF r.err = "none" THEN r.ret ELSE NoBlock,
                 r.err, 0, FreeList(World)))
  /\ pushed' = pushed

\* allocator.allocate(size) by a caller
AllocateCall(sizes, limit) ==
  \E size \in sizes :
    /\ steps < limit
    /\ Len(live) < MaxLive
    /\ Allocated(Allocate(World, size), size)

\* free has ended in r: a rejected free leaves the block with the caller
Freed(r, i) ==
  /\ Within(r)
  /\ Commit(r.w)
  /\ live' = IF r.err = "none" THEN RemoveLive(live, i) ELSE live
  /\ Record(Call("free", 0, 0, live[i], r.err, 0, FreeList(World)))
  /\ pushed' = pushed

\* allocator.free(block) of a block the caller holds
FreeCall(limit) ==
  \E i \in 1 .. Len(live) :
    /\ steps < limit
    /\ Freed(Free(World, live[i]), i)

Registered(r) ==
  /\ Within(r)
  /\ Commit(r.w)
  /\ Record(Call("register", 0, 0, NoBlock, r.err, r.ret, <<>>))
  /\ UNCHANGED <<live, pushed>>

\* allocator.registerStructure(structure) of a plain object whose restore
\* does nothing
RegisterCall(limit) ==
  /\ steps < limit
  /\ nextId < MaxArrays + 1
  /\ Registered(RegisterStructure(World, 0))

\* the ids a caller passes to getStructureOffset
StructureIds == 0 .. MaxArrays + 1

GotOffset(r, id) ==
  /\ Within(r)
  /\ Commit(r.w)
  /\ Record(Call("offset", 0, id, NoBlock, r.err, r.ret, <<>>))
  /\ UNCHANGED <<live, pushed>>

\* allocator.getStructureOffset(id) by a caller
GetOffsetCall(limit) ==
  \E id \in StructureIds :
    /\ steps < limit
    /\ GotOffset(GetStructureOffset(World, id), id)

Constructed(r, capacity) ==
  /\ Within(r)
  /\ Commit(r.w)
  /\ pushed' = GrowPushed(r.w)
  /\ Record(Call("construct", r.ret, capacity, NoBlock, r.err, 0, <<>>))
  /\ live' = live

\* new ResizableArray(allocator, capacity)
ConstructCall(limit) ==
  \E capacity \in Capacities :
    /\ steps < limit
    /\ Len(arrays) < MaxArrays
    /\ Constructed(ArrayNew(World, capacity), capacity)

Pushed(r, k, value) ==
  /\ Within(r)
  /\ Commit(r.w)
  /\ pushed' = IF r.err = "none" THEN [pushed EXCEPT ![k] = Append(@, value)]
               ELSE pushed
  /\ Record(Call("push", k, value, NoBlock, r.err, 0, <<>>))
  /\ live' = live

\* array.push(value)
PushCall(limit) ==
  \E k \in Held, value \in Values :
    /\ steps < limit
    /\ Pushed(Push(World, k, value), k, value)

Got(r, k, index) ==
  /\ Within(r)
  /\ Commit(r.w)
  /\ Record(Call("get", k, index, NoBlock, r.err, r.ret, <<>>))
  /\ UNCHANGED <<live, pushed>>

\* array.get(index)
GetCall(limit) ==
  \E k \in Held, index \in 0 .. MaxIndex :
    /\ steps < limit
    /\ Got(Get(World, k, index), k, index)

Restored(r, k) ==
  /\ Within(r)
  /\ Commit(r.w)
  /\ Record(Call("restore", k, 0, NoBlock, r.err, 0, <<>>))
  /\ UNCHANGED <<live, pushed>>

\* array.restore(allocator.getStructureOffset(array.__ID))
RestoreCall(limit) ==
  \E k \in Held :
    /\ steps < limit
    /\ Restored(RestoreById(World, k, arrays[k].ID), k)

Reloaded(r, k) ==
  /\ r.err # "beyond"
  /\ Record(Call("reload", k, 0, NoBlock, r.err,
                 IF r.err = "none" /\ r.ret THEN 1 ELSE 0, <<>>))
  /\ UNCHANGED <<buffer, maxFreeBlocks, structures, nextId, arrays, live, pushed>>

\* the reload of array k; the arena itself is left as it is
ReloadCall(limit) ==
  \E k \in Held :
    /\ steps < limit
    /\ Reloaded(Reload(World, k), k)

Init ==
  \E a \in Arenas :
    /\ buffer = AllocatorNew(a[1], a[2], <<>>).w.buffer
    /\ maxFreeBlocks = a[2]
    /\ structures = [x \in {} |-> 0]
    /\ nextId = 0
    /\ arrays = <<>>
    /\ live = <<>>
    /\ pushed = <<>>
    /\ hist = <<NoCall, NoCall, NoCall>>
    /\ steps = 0

Next ==
  \/ AllocateCall(AllocSizes, MaxSteps)
  \/ FreeCall(MaxSteps)
  \/ RegisterCall(MaxSteps)
  \/ GetOffsetCall(MaxSteps)
  \/ ConstructCall(MaxSteps)
  \/ PushCall(MaxSteps)
  \/ GetCall(MaxSteps)
  \/ RestoreCall(MaxSteps)
  \/ ReloadCall(MaxSteps)

Spec == Init /\ [][Next]_vars

\* an arena used through allocate and free alone
AllocNext ==
  \/ AllocateCall(PlainAllocSizes, MaxAllocSteps)
  \/ FreeCall(MaxAllocSteps)

SpecAlloc == Init /\ [][AllocNext]_vars

\* an arena used through allocate and free alone, with requests larger than
\* the arena
GrowNext ==
  \/ AllocateCall(GrowSizes, MaxGrowSteps)
  \/ FreeCall(MaxGrowSteps)

SpecGrow == Init /\ [][GrowNext]_vars

\* an arena used through ResizableArray constructions, pushes and
\* registrations of other structures
RegisteredNext ==
  \/ ConstructCall(MaxRegisterSteps)
  \/ PushCall(MaxRegisterSteps)
  \/ RegisterCall(MaxRegisterSteps)

SpecRegistered == Init /\ [][RegisteredNext]_vars

\* an arena used through ResizableArray constructions and pushes alone
ArrayNext ==
  \/ ConstructCall(MaxArraySteps)
  \/ PushCall(MaxArraySteps)

SpecArrays == Init /\ [][ArrayNext]_vars

(* ------------------------------ the claims ----------------------------- *)
WorldNext == [buffer |-> buffer', maxFreeBlocks |-> maxFreeBlocks',
              structures |-> structures', nextId |-> nextId', arrays |-> arrays']

Overlap(a, b) == a.offset < b.offset + b.size /\ b.offset < a.offset + a.size

InSeq(s) == {s[i] : i \in 1 .. Len(s)}

\* C1: under allocate and free calls that respect the API, no two live blocks
\* overlap and no live block overlaps a free-list entry.
C1_LiveBlocksDisjoint ==
  /\ \A i, j \in 1 .. Len(live) : i < j => ~Overlap(live[i], live[j])
  /\ \A b \in InSeq(live), e \in InSeq(FreeList(World)) : ~Overlap(b, e)

\* an allocation taken out of a free entry while other blocks are live and
\* another part of the free list remains
C1_Witness ==
  /\ hist[1].op = "allocate" /\ hist[1].err = "none"
  /\ \E e \in InSeq(hist[1].freeBefore) :
        e.offset = hist[1].block.offset /\ e.size > hist[1].n
  /\ Len(live) >= 3
  /\ Len(FreeList(World)) >= 1

\* array k holds what was pushed to it: its length is the number of values
\* pushed and get returns the i-th value pushed
HoldsPushed(w, k) ==
  /\ w.arrays[k].length = Len(pushed[k])
  /\ \A i \in 1 .. Len(pushed[k]) :
       Get(w, k, i - 1).err = "none" /\ Get(w, k, i - 1).ret = pushed[k][i]

\* C2: under constructions and pushes on arrays that share one allocator,
\* every array has the length and the elements of the sequence pushed to it.
C2_IndependentSequences == \A k \in Held : HoldsPushed(World, k)

\* the latest call is an allocate(n) that returned, right after a free of a
\* block of at least n bytes
FreeThenAllocate ==
  /\ hist[1].op = "allocate" /\ hist[1].err = "none"
  /\ hist[2].op = "free"
  /\ hist[1].n <= hist[2].block.size

\* C3 as claimed: free of a live block of size S, then allocate(n), n <= S,
\* returns a block at the freed block's offset.
C3_Reuse == FreeThenAllocate => hist[1].block.offset = hist[2].block.offset

\* before the free of block, no free entry at a lower offset could serve n
\* bytes or ended where block starts
NoLowerFit(freeBefore, block, n) ==
  \A e \in InSeq(freeBefore) :
    e.offset < block.offset => e.size < n /\ e.offset + e.size # block.offset

\* C3 amended: the same, when before the free no free entry at a lower offset
\* had n bytes or ended at the freed block's offset.
C3_ReuseFirstFit ==
  FreeThenAllocate /\ NoLowerFit(hist[2].freeBefore, hist[2].block, hist[1].n)
    => hist[1].block.offset = hist[2].block.offset

\* a reuse with a smaller free entry lying below the freed block
C3_Witness ==
  /\ FreeThenAllocate
  /\ NoLowerFit(hist[2].freeBefore, hist[2].block, hist[1].n)
  /\ \E e \in InSeq(hist[2].freeBefore) : e.offset < hist[2].block.offset
  /\ hist[1].block.offset = hist[2].block.offset

\* the lower and the upper of the two blocks freed just before the latest call
LowerFreed == IF hist[2].block.offset < hist[3].block.offset
              THEN hist[2].block ELSE hist[3].block
UpperFreed == IF hist[2].block.offset < hist[3].block.offset
              THEN hist[3].block ELSE hist[2].block

\* the latest call is an allocate that returned, right after the frees of two
\* byte-adjacent blocks, and asked for their combined size
FreeTwoThenAllocate ==
  /\ hist[1].op = "allocate" /\ hist[1].err = "none"
  /\ hist[2].op = "free" /\ hist[3].op = "free"
  /\ LowerFreed.offset + LowerFreed.size = UpperFreed.offset
  /\ hist[1].n = LowerFreed.size + UpperFreed.size

\* C4 as claimed: free of two byte-adjacent blocks A and B in either order,
\* then allocate(A.size + B.size), returns a block at A.offset.
C4_Coalescing == FreeTwoThenAllocate => hist[1].block.offset = LowerFreed.offset

\* C4 amended: the same, when before the two frees no free entry at a lower
\* offset had A.size + B.size bytes or ended at A.offset.
C4_CoalescingFirstFit ==
  FreeTwoThenAllocate /\ NoLowerFit(hist[3].freeBefore, LowerFreed, hist[1].n)
    => hist[1].block.offset = LowerFreed.offset

\* a coalesced reuse where the upper block was freed first
C4_Witness ==
  /\ FreeTwoThenAllocate
  /\ NoLowerFit(hist[3].freeBefore, LowerFreed, hist[1].n)
  /\ hist[3].block = UpperFreed
  /\ hist[1].block.offset = LowerFreed.offset

\* no free entry of w has size bytes
NoFit(w, size) == FindFreeBlock(w, size, 0, GetUint32(w, 4)).kind = "none"

\* C5: an allocate(size) that finds no fitting free entry and whose bump
\* offset + size exceeds the arena length returns, doubles the arena length,
\* returns the block at the old bump offset and advances the bump offset by
\* size, with or without registered structures.
C5_GrowthCorrect ==
  [][(/\ hist'[1].op = "allocate"
      /\ NoFit(World, hist'[1].n)
      /\ BumpOffset(World) > buffer.byteLength - hist'[1].n)
     => (/\ hist'[1].err = "none"
         /\ buffer'.byteLength = 2 * buffer.byteLength
         /\ hist'[1].block.offset = BumpOffset(World)
         /\ BumpOffset(WorldNext) = BumpOffset(World) + hist'[1].n)]_vars

\* C6: a free called when the free-block count equals maxFreeBlocks throws
\* 'Free block list is full' and changes nothing: the arena bytes (bump
\* offset, free count, free table, registry), the allocator's fields and the
\* arrays stay as they were, the block stays with the caller and the call
\* records no free-list entry for it.
C6_FreeRejectedWhenFull ==
  [][(hist'[1].op = "free" /\ FreeBlockCount(World) = maxFreeBlocks)
     => (/\ hist'[1].err = "full"
         /\ UNCHANGED <<buffer, maxFreeBlocks, structures, nextId, arrays, live>>
         /\ \A e \in InSeq(FreeList(WorldNext)) \ InSeq(FreeList(World)) :
              e # hist'[1].block)]_vars

\* a rejected free of a block the caller still holds, on a full free table
C6_Witness ==
  /\ hist[1].op = "free" /\ hist[1].err = "full"
  /\ FreeBlockCount(World) = maxFreeBlocks
  /\ hist[1].block \in InSeq(live)

\* C7: the free-block count at header offset 4 is at most maxFreeBlocks in
\* every reachable state.
C7_FreeCountBounded == FreeBlockCount(World) <= maxFreeBlocks

\* C8: restore(getStructureOffset(__ID)) on an array that was constructed and
\* pushed N >= 1 values without a resize leaves its length, capacity and
\* elements as they were.
C8_RestoreRoundTrip ==
  [][(/\ hist'[1].op = "restore"
      /\ Len(pushed[hist'[1].k]) >= 1
      /\ HoldsPushed(World, hist'[1].k)
      /\ arrays[hist'[1].k].capacity = arrays[hist'[1].k].initialCapacity)
     => (/\ hist'[1].err = "none"
         /\ SameArray(World, hist'[1].k, WorldNext, hist'[1].k))]_vars

\* C9: with arrays constructed and filled on an allocator that has the
\* default maxFreeBlocks, as the one fromBuffer builds, fromBuffer on a copy
\* of the bytes returns, and a new array restored on the loaded allocator
\* with the original's id has the original's length, capacity and elements.
C9_ReloadRoundTrip ==
  (/\ hist[1].op = "reload"
   /\ maxFreeBlocks = DefaultMaxFreeBlocks
   /\ Len(pushed[hist[1].k]) >= 1
   /\ \A k \in Held : HoldsPushed(World, k))
    => (hist[1].err = "none" /\ hist[1].val = 1)

\* C10: get(index) with index >= length throws 'Index out of bounds' and
\* changes neither the array's fields nor the arena.
C10_GetOutOfBounds ==
  [][(hist'[1].op = "get" /\ hist'[1].n >= arrays[hist'[1].k].length)
     => (/\ hist'[1].err = "oob"
         /\ UNCHANGED <<buffer, maxFreeBlocks, structures, nextId, arrays>>)]_vars

\* an out-of-bounds get on an array that holds elements
C10_Witness ==
  /\ hist[1].op = "get" /\ hist[1].err = "oob"
  /\ arrays[hist[1].k].length >= 1
  /\ arrays[hist[1].k].length < arrays[hist[1].k].capacity

\* the latest call, an allocate(n), is served from the free list of World
ServedFromFreeList(n) == FindFreeBlock(World, n, 0, GetUint32(World, 4)).kind = "found"

\* C11: the bump offset at header offset 0 never decreases, whatever the
\* call: a free leaves it unchanged, an allocate served from the free list
\* leaves it unchanged, and an allocate served by the bump pointer adds the
\* requested size to it.
C11_BumpNeverDecreases ==
  [][/\ BumpOffset(WorldNext) >= BumpOffset(World)
     /\ hist'[1].op = "free" => BumpOffset(WorldNext) = BumpOffset(World)
     /\ (hist'[1].op = "allocate" /\ hist'[1].err = "none")
          => IF ServedFromFreeList(hist'[1].n)
             THEN BumpOffset(WorldNext) = BumpOffset(World)
             ELSE BumpOffset(WorldNext) = BumpOffset(World) + hist'[1].n]_vars

\* registry entry k of w: the id and the offset at 12 + maxFreeBlocks*8 + k*8
RegistryEntry(w, k) ==
  [id |-> GetUint32(w, 12 + w.maxFreeBlocks * 8 + k * 8),
   offset |-> GetUint32(w, 12 + w.maxFreeBlocks * 8 + k * 8 + 4)]

\* registry entry id of w is inside the buffer and holds id and the offset
\* recorded for it
RegistryHolds(w, id) ==
  /\ InBounds(w, 12 + w.maxFreeBlocks * 8 + id * 8 + 4)
  /\ ~Wide(w, 12 + w.maxFreeBlocks * 8 + id * 8)
  /\ ~Wide(w, 12 + w.maxFreeBlocks * 8 + id * 8 + 4)
  /\ RegistryEntry(w, id) = [id |-> id, offset |-> w.structures[id].offset]

\* C12: a registry entry that holds the id and the offset registerStructure
\* wrote keeps holding them after any later call.
C12_RegistryDurable ==
  [][\A id \in DOMAIN structures :
       RegistryHolds(World, id) => RegistryHolds(WorldNext, id)]_vars


\* C13: a registerStructure call returns the id n that counts the earlier
\* calls on the instance, adds one to the registry count at header offset 8,
\* writes {n, bump offset} as registry entry n, and leaves the bump offset and
\* the free-block count unchanged.
C13_RegisterStructure ==
  [][hist'[1].op = "register"
       => /\ hist'[1].err = "none"
          /\ hist'[1].val = nextId
          /\ StructuresCount(WorldNext) = StructuresCount(World) + 1
          /\ RegistryEntry(WorldNext, nextId)
               = [id |-> nextId, offset |-> BumpOffset(World)]
          /\ BumpOffset(WorldNext) = BumpOffset(World)
          /\ FreeBlockCount(WorldNext) = FreeBlockCount(World)]_vars


\* C14: getStructureOffset(id) returns the bump offset that was current when
\* id was registered, at any later point and whatever calls came between; for
\* an id that was never registered it throws the not-found error; it changes
\* no state.
C14_StructureOffset ==
  [][/\ \A id \in DOMAIN structures :
          id \in DOMAIN structures' /\ structures'[id].offset = structures[id].offset
     /\ (hist'[1].op = "register" /\ nextId' = nextId + 1)
          => structures'[nextId].offset = BumpOffset(World)
     /\ (hist'[1].op = "construct" /\ nextId' = nextId + 1)
          => structures'[nextId].offset
               = BumpOffset(Allocate(World, 8 + hist'[1].n * 4).w)
     /\ hist'[1].op = "offset"
          => /\ UNCHANGED <<buffer, maxFreeBlocks, structures, nextId, arrays>>
             /\ IF hist'[1].n \in DOMAIN structures
                THEN hist'[1].err = "none" /\ hist'[1].val = structures[hist'[1].n].offset
                ELSE hist'[1].err = "notfound"]_vars

\* getStructureOffset has returned the offset recorded for an id after the
\* buffer has grown and the bump offset has moved on
C14_Witness ==
  /\ hist[1].op = "offset" /\ hist[1].err = "none"
  /\ buffer.byteLength > 64
  /\ hist[1].val # BumpOffset(World)
  /\ hist[1].val = structures[hist[1].n].offset


\* two calls ended alike: the same error or the same returned value, and the
\* same bytes
SameOutcome(r1, r2) ==
  /\ r1.err = r2.err
  /\ r1.err = "none" => r1.ret = r2.ret
  /\ r1.w.buffer = r2.w.buffer

\* the allocator that fromBuffer returned in l answers every next allocate
\* and every next free of a live block as World does
LoadedEquivalent(l) ==
  /\ l.err = "none"
  /\ \A size \in PlainAllocSizes :
       SameOutcome(Allocate(World, size), Allocate(l.w, size))
  /\ \A i \in 1 .. Len(live) :
       SameOutcome(Free(World, live[i]), Free(l.w, live[i]))

\* C15: for an arena without registered structures, in any state reached by
\* allocate and free calls, the allocator returned by Allocator.fromBuffer on
\* the arena's bytes answers the next allocate or free as the original does:
\* same block or same error, same bytes afterwards.
C15_FromBufferEquivalent == LoadedEquivalent(FromBuffer(buffer, <<>>))


\* the indexes of the entries of the free list f that are large enough for n
Fitting(f, n) == {i \in 1 .. Len(f) : f[i].size >= n}

\* the first entry of f that is large enough for n
FirstFit(f, n) == CHOOSE i \in Fitting(f, n) : \A j \in Fitting(f, n) : i <= j

\* f after entry i gave up its first n bytes
ShrunkAt(f, i, n) ==
  [f EXCEPT ![i] = [offset |-> f[i].offset + n, size |-> f[i].size - n]]

\* f after its last entry moved into slot i
SwappedOut(f, i) == [j \in 1 .. Len(f) - 1 |-> IF j = i THEN f[Len(f)] ELSE f[j]]

\* allocate(n) on the free list f, some entry of which is large enough, has
\* returned block and left the free list g
FirstFitServed(f, n, block, g) ==
  /\ block = [offset |-> f[FirstFit(f, n)].offset, size |-> n]
  /\ g = IF f[FirstFit(f, n)].size > n THEN ShrunkAt(f, FirstFit(f, n), n)
         ELSE SwappedOut(f, FirstFit(f, n))

\* C16: allocate(size) uses the first free-table entry, in table order, whose
\* size is >= the request: a larger entry is shrunk in place to
\* {offset + size, entrySize - size} and the count is unchanged; an equal
\* entry is removed by moving the last entry into its slot and the count
\* drops by one; the returned block is {entry offset, size} and the bump
\* offset is unchanged.
C16_FirstFit ==
  [][(hist'[1].op = "allocate" /\ Fitting(FreeList(World), hist'[1].n) # {})
       => /\ hist'[1].err = "none"
          /\ FirstFitServed(FreeList(World), hist'[1].n, hist'[1].block,
                            FreeList(WorldNext))
          /\ FreeBlockCount(WorldNext) = Len(FreeList(WorldNext))
          /\ BumpOffset(WorldNext) = BumpOffset(World)]_vars

\* an allocate has taken the whole of the first of two free entries, and the
\* second one has moved into its slot
C16_Witness ==
  /\ hist[1].op = "allocate" /\ hist[1].err = "none"
  /\ Len(hist[1].freeBefore) = 2
  /\ hist[1].freeBefore[1].size = hist[1].n
  /\ hist[1].block.offset = hist[1].freeBefore[1].offset
  /\ FreeList(World) = <<hist[1].freeBefore[2]>>


\* byte x lies in an entry of the free list f
Covers(f, x) == \E i \in 1 .. Len(f) : f[i].offset <= x /\ x < f[i].offset + f[i].size

\* the bytes at which the cover of the free list f starts or stops, and their
\* left neighbours
Edges(f) ==
  UNION {{f[i].offset - 1, f[i].offset, f[i].offset + f[i].size - 1,
          f[i].offset + f[i].size} : i \in 1 .. Len(f)}

\* the free lists f and g cover the same bytes
SameCover(f, g) == \A x \in Edges(f) \cup Edges(g) : Covers(f, x) <=> Covers(g, x)

\* the entries of f ascend strictly by offset and leave a gap between
\* neighbours
Coalesced(f) == \A i \in 1 .. Len(f) - 1 : f[i].offset + f[i].size < f[i + 1].offset

\* C17: immediately after every successful free the free-table entries are
\* sorted by strictly ascending offset, each entry ends strictly below the
\* next entry's offset, and the bytes they cover are the bytes the free list
\* covered before the call plus the freed block.
C17_FreeCoalesces ==
  [][(hist'[1].op = "free" /\ hist'[1].err = "none")
       => /\ FreeBlockCount(WorldNext) = Len(FreeList(WorldNext))
          /\ Coalesced(FreeList(WorldNext))
          /\ SameCover(FreeList(WorldNext),
                       Append(FreeList(World), hist'[1].block))]_vars


\* C18: one allocate call grows the arena at most once: on return the length
\* is unchanged or exactly twice what it was, whatever the size; a request
\* that no free entry serves returns the block at the bump offset, after a
\* growth exactly when bump offset + size exceeded the length, so that a
\* request exceeding the doubled length gets a block that ends beyond the
\* arena.
C18_GrowsAtMostOnce ==
  [][hist'[1].op = "allocate"
       => /\ buffer'.byteLength \in {buffer.byteLength, 2 * buffer.byteLength}
          /\ Fitting(FreeList(World), hist'[1].n) = {}
               => /\ hist'[1].err = "none"
                  /\ hist'[1].block = [offset |-> BumpOffset(World), size |-> hist'[1].n]
                  /\ BumpOffset(WorldNext) = BumpOffset(World) + hist'[1].n
                  /\ buffer'.byteLength
                       = IF BumpOffset(World) + hist'[1].n > buffer.byteLength
                         THEN 2 * buffer.byteLength ELSE buffer.byteLength]_vars

\* an allocate has grown the arena from 64 to 128 bytes and returned a block
\* that ends beyond byte 128
C18_Witness ==
  /\ hist[1].op = "allocate" /\ hist[1].err = "none"
  /\ buffer.byteLength = 128
  /\ hist[1].block.offset < 64
  /\ hist[1].block.offset + hist[1].block.size > buffer.byteLength


\* the latest call has grown the arena
Grown == buffer'.byteLength > buffer.byteLength

\* the latest call has left array k at its block offset, with its length, its
\* capacity and its elements
Kept(k) ==
  /\ arrays'[k].block.offset = arrays[k].block.offset
  /\ SameArray(World, k, WorldNext, k)

\* C19: a growth of the arena inside a call, while ResizableArrays are
\* registered, completes without error and leaves the block offset, length,
\* capacity and elements of every registered array as they were: an allocate
\* call that grew the arena returns, and after any call that grew the arena
\* every array, but the one that call pushed to, is unchanged.
C19_GrowthKeepsArrays ==
  [][(Grown /\ Len(arrays) >= 1)
       => /\ hist'[1].op = "allocate" => hist'[1].err = "none"
          /\ \A k \in 1 .. Len(arrays) :
               (hist'[1].op = "push" /\ hist'[1].k = k) \/ Kept(k)]_vars


\* the latest call, a push to array k that had room, has returned and left
\* the capacity and the block alone
PushedInPlace(k) ==
  /\ hist'[1].err = "none"
  /\ arrays'[k].capacity = arrays[k].capacity
  /\ arrays'[k].block = arrays[k].block
  /\ arrays'[k].length = arrays[k].length + 1

\* the latest call, a push to array k that was full, has returned after
\* moving the array to a new block of twice the capacity and freeing the old
\* block
PushedAfterResize(k) ==
  /\ hist'[1].err = "none"
  /\ arrays'[k].capacity = 2 * arrays[k].capacity
  /\ arrays'[k].block.size = 8 + 4 * arrays'[k].capacity
  /\ arrays'[k].block # arrays[k].block
  /\ Covers(FreeList(WorldNext), arrays[k].block.offset)
  /\ arrays'[k].length = arrays[k].length + 1

\* C20: every ResizableArray has length <= capacity in every reachable
\* state; a push with length < capacity leaves capacity and block unchanged
\* and adds one to length; a push with length = capacity doubles the
\* capacity, moves the array to a new block of 8 + 4*newCapacity bytes, frees
\* the old block and then adds one to length.
C20_LengthWithinCapacity ==
  [][/\ \A k \in 1 .. Len(arrays') : arrays'[k].length <= arrays'[k].capacity
     /\ (hist'[1].op = "push" /\ arrays[hist'[1].k].length < arrays[hist'[1].k].capacity)
          => PushedInPlace(hist'[1].k)
     /\ (hist'[1].op = "push" /\ arrays[hist'[1].k].length = arrays[hist'[1].k].capacity)
          => PushedAfterResize(hist'[1].k)]_vars


\* the words of w at the block offset of array k and four bytes on are the
\* array's length and capacity
MetadataSaved(w, k) ==
  /\ InBounds(w, w.arrays[k].block.offset)
  /\ InBounds(w, w.arrays[k].block.offset + 4)
  /\ ~Wide(w, w.arrays[k].block.offset)
  /\ ~Wide(w, w.arrays[k].block.offset + 4)
  /\ GetUint32(w, w.arrays[k].block.offset) = w.arrays[k].length
  /\ GetUint32(w, w.arrays[k].block.offset + 4) = w.arrays[k].capacity

\* C21: between calls, for every ResizableArray a caller holds, the two words
\* at its block's offset and offset + 4 equal its length and its capacity,
\* after any sequence of constructions, pushes and registrations of other
\* structures.
C21_MetadataInArena == \A k \in Held : MetadataSaved(World, k)


\* the pieces of p that hold byte x
Owners(p, x) ==
  {i \in 1 .. Len(p) : p[i].offset <= x /\ x < p[i].offset + p[i].size}

RECURSIVE SumSizes(_)
SumSizes(s) == IF s = <<>> THEN 0 ELSE Head(s).size + SumSizes(Tail(s))

\* the pieces of p partition the bytes lo .. hi - 1: every byte lies in
\* exactly one piece, no piece reaches below lo, and the sizes add up to
\* hi - lo
PartitionedBy(p, lo, hi) ==
  /\ \A x \in lo .. hi - 1 : Cardinality(Owners(p, x)) = 1
  /\ \A i \in 1 .. Len(p) : p[i].offset >= lo
  /\ SumSizes(p) = hi - lo

\* C22: under allocate and free calls that respect the API, the bytes from
\* the initial bump offset 12 + maxFreeBlocks*8 up to the bump offset are
\* partitioned by the live blocks and the free-list entries: every byte of
\* the range lies in exactly one of them, none of them reaches below the
\* initial bump offset, and their sizes add up to bump offset minus initial
\* bump offset.
C22_SpaceAccounting ==
  PartitionedBy(live \o FreeList(World), InitialOffset(maxFreeBlocks),
                BumpOffset(World))

\* after a free that was accepted, two separate free entries and a live
\* block share the range below the bump offset
C22_Witness ==
  /\ hist[1].op = "free" /\ hist[1].err = "none"
  /\ Len(FreeList(World)) = 2
  /\ Len(live) >= 1
  /\ BumpOffset(World) > InitialOffset(maxFreeBlocks)

====
